---- MODULE Spec2Model ----
\* Antenna selector (transco_select.ino): Nextion touch frames on Serial3,
\* eight active-high relays, a 2 s relay pulse per press, selection kept in
\* two EEPROM bytes.
EXTENDS Integers, Sequences, FiniteSets, TLC

\* ------------------------------------------------------------------
\* Program constants
\* ------------------------------------------------------------------
NB_ANTENNES == 8
FIRST_BTN_ID == 2
EEPROM_MAGIC_ADDR == 0
EEPROM_SELECTED_ADDR == 1
EEPROM_MAGIC_VALUE == 165
\* the literal 2000UL of "relayOffTime[idx] = millis() + 2000UL"
PulseMs == 2000
\* delay(500) of setup()
SetupDelayMs == 500
\* first byte of a touch frame (0x65) and its terminator byte (0xFF)
FrameStart == 101
FrameEnd == 255
\* unsigned long is 32 bits wide on the ATmega2560. A value is written as
\* two 16-bit halves <<high, low>>, its numeric value being high * 2^16 + low.
Half == 2^16
ULong(n) == <<(n \div Half) % Half, n % Half>>
\* a + d on 32 bits, for 0 <= d < 2^16
ULPlus(a, d) ==
  <<(a[1] + ((a[2] + d) \div Half)) % Half, (a[2] + d) % Half>>
\* a >= b on unsigned 32-bit values
ULGeq(a, b) == a[1] > b[1] \/ (a[1] = b[1] /\ a[2] >= b[2])
ULZero == <<0, 0>>

Antennes == 0..(NB_ANTENNES - 1)
Byte == 0..255

\* ------------------------------------------------------------------
\* Bounds of the model
\* ------------------------------------------------------------------
\* millis() advances while it is at most MaxNow or inside the wrap zone
MaxNow == 3000
\* the elapsed-time observers saturate here
MaxElapsed == 3000
\* capacity used of the Serial3 receive buffer
MaxRx == 7
\* the count of decoded events saturates here
MaxEvts == 2

\* granularity of the clock: half a pulse
TickMs == PulseMs \div 2
\* value of millis() reached after a long idle run, 3000 ms before it wraps:
\* one tick later millis() + 2000 is exactly 2^32, two ticks later above it
WrapStarts == {<<Half - 1, Half - 3000>>}
InWrapZone(t) == t[1] = Half - 1 /\ t[2] >= Half - 3000

VARIABLES
  relay,                \* level of relayPins[i]: TRUE = HIGH = energized
  relayOffTime,         \* unsigned long relayOffTime[NB_ANTENNES]
  antenneSelectionnee,  \* int8_t, -1 = none
  EEPROM,               \* the two bytes at addresses 0 and 1
  pos,                  \* static uint8_t pos of recevoirEvenementsNextion
  buffer,               \* static uint8_t buffer[7]; the cells at and above pos are
                        \* dead (rewritten before line 134 reads them), kept at 0
  rx,                   \* bytes waiting in the Serial3 receive buffer
  wire,                 \* bytes the display has still to put on the line
  bouton,               \* last .val sent to bt<i> since power-up, -1 = none
  tx,                   \* commands written to Serial3 by the latest step
  now,                  \* millis()
  pc,                   \* "setup", "recv" (loop, line 201), "tempo" (line 202)
  since,                \* ms since the last valid touch event (or setup), saturating
  scanned,              \* a GererTemporisations step ran PulseMs or more after that event
  evtAnt,               \* antenna of the last valid touch event since power-up, -1 = none
  lastSel,              \* antenna of the last valid touch event ever, -1 = none
  nbEvts,               \* number of touch events decoded since power-up, saturating
  fenetre,              \* what the latest step did with a full 7-byte window:
                        \* "selection", "ignoree", or "aucune" (no window completed)
  stream,               \* the byte stream the display was given to send
  ret,                  \* result of the latest lireSelectionEEPROM() call, -2 = none
  avant,                \* <<k, d>>: relay k was energized when the valid touch event handled
                        \* at the current instant began, d tells whether its deadline was
                        \* pending; <<-1, FALSE>> when no relay was energized, no event was
                        \* handled, or time has moved since
  journal               \* the <<page, componentId>> of the well-formed windows decoded
                        \* by RecvByteJournal, in order

vars == <<relay, relayOffTime, antenneSelectionnee, EEPROM, pos, buffer, rx, wire,
          bouton, tx, now, pc, since, scanned, evtAnt, lastSel, nbEvts, fenetre, stream, ret,
          avant, journal>>

Min(a, b) == IF a < b THEN a ELSE b

\* ------------------------------------------------------------------
\* The outputs of the program as one record, threaded through the code
\* ------------------------------------------------------------------
Sortie(r, t, b, o, a, e) ==
  [relay |-> r, relayOffTime |-> t, bouton |-> b, tx |-> o,
   antenneSelectionnee |-> a, EEPROM |-> e]

Courant == Sortie(relay, relayOffTime, bouton, <<>>, antenneSelectionnee, EEPROM)

digitalWrite(s, i, level) == [s EXCEPT !.relay[i] = level]

setBoutonOff(s, index) ==
  [s EXCEPT !.bouton[index] = 0, !.tx = Append(@, <<index, 0>>)]

\* variant: the "on" command written with .val=0
setBoutonOnVal0(s, index) ==
  [s EXCEPT !.bouton[index] = 0, !.tx = Append(@, <<index, 0>>)]

setBoutonOn(s, index) ==
  [s EXCEPT !.bouton[index] = 1, !.tx = Append(@, <<index, 1>>)]

\* variant: the other relays are not switched off
exclusiviteCorpsSansRelais(s, i, actif) ==
  IF i # actif
  THEN setBoutonOff([s EXCEPT !.relayOffTime[i] = ULZero], i)
  ELSE s

\* variant: the deadline of the other relays is left pending
exclusiviteCorpsSansEcheance(s, i, actif) ==
  IF i # actif
  THEN setBoutonOff(digitalWrite(s, i, FALSE), i)
  ELSE s

\* body of the for loop of exclusivite, for one i
exclusiviteCorps(s, i, actif) ==
  IF i # actif
  THEN setBoutonOff([digitalWrite(s, i, FALSE) EXCEPT !.relayOffTime[i] = ULZero], i)
  ELSE s

RECURSIVE exclusiviteDepuis(_, _, _)
exclusiviteDepuis(s, i, actif) ==
  IF i >= NB_ANTENNES THEN s
  ELSE exclusiviteDepuis(exclusiviteCorps(s, i, actif), i + 1, actif)

exclusivite(s, actif) == exclusiviteDepuis(s, 0, actif)

\* variant: the deadline is tested with > instead of >=
temporisationCorpsStrict(s, i, t) ==
  IF s.relayOffTime[i] # ULZero /\ ~ULGeq(s.relayOffTime[i], t)
  THEN [digitalWrite(s, i, FALSE) EXCEPT !.relayOffTime[i] = ULZero]
  ELSE s

\* variant: the deadline is left in place when the relay is switched off
temporisationCorpsSansRaz(s, i, t) ==
  IF s.relayOffTime[i] # ULZero /\ ULGeq(t, s.relayOffTime[i])
  THEN digitalWrite(s, i, FALSE)
  ELSE s

\* variant: the selection is dropped when the pulse ends
temporisationCorpsDeselect(s, i, t) ==
  IF s.relayOffTime[i] # ULZero /\ ULGeq(t, s.relayOffTime[i])
  THEN [digitalWrite(s, i, FALSE) EXCEPT !.relayOffTime[i] = ULZero,
                                         !.antenneSelectionnee = -1]
  ELSE s

\* body of the for loop of gererTemporisations, for one i
temporisationCorps(s, i, t) ==
  IF s.relayOffTime[i] # ULZero /\ ULGeq(t, s.relayOffTime[i])
  THEN [digitalWrite(s, i, FALSE) EXCEPT !.relayOffTime[i] = ULZero]
  ELSE s

RECURSIVE temporisationsDepuis(_, _, _)
temporisationsDepuis(s, i, t) ==
  IF i >= NB_ANTENNES THEN s
  ELSE temporisationsDepuis(temporisationCorps(s, i, t), i + 1, t)

gererTemporisations(s, t) == temporisationsDepuis(s, 0, t)

\* variant: the magic byte is not written
sauvegarderSansMagic(e, idx) == [e EXCEPT ![EEPROM_SELECTED_ADDR] = idx]

\* variant: both bytes are written at the magic address
sauvegarderMemeAdresse(e, idx) ==
  [[e EXCEPT ![EEPROM_MAGIC_ADDR] = EEPROM_MAGIC_VALUE]
      EXCEPT ![EEPROM_MAGIC_ADDR] = idx]

\* EEPROM.update(addr, v) twice
sauvegarderSelection(e, idx) ==
  [[e EXCEPT ![EEPROM_MAGIC_ADDR] = EEPROM_MAGIC_VALUE]
      EXCEPT ![EEPROM_SELECTED_ADDR] = idx]

\* variant: the range test is > instead of >=
lireSansBorne(e) ==
  IF e[EEPROM_MAGIC_ADDR] # EEPROM_MAGIC_VALUE THEN -1
  ELSE IF e[EEPROM_SELECTED_ADDR] > NB_ANTENNES THEN -1
  ELSE e[EEPROM_SELECTED_ADDR]

lireSelectionEEPROM(e) ==
  IF e[EEPROM_MAGIC_ADDR] # EEPROM_MAGIC_VALUE THEN -1
  ELSE IF e[EEPROM_SELECTED_ADDR] >= NB_ANTENNES THEN -1
  ELSE e[EEPROM_SELECTED_ADDR]

\* ------------------------------------------------------------------
\* recevoirEvenementsNextion: the tests on a full 7-byte window
\* ------------------------------------------------------------------
\* variant: only the "pressed" notification is taken for a frame
trameValideAppui(buf) ==
  /\ buf[0] = FrameStart
  /\ buf[3] = 1
  /\ buf[4] = FrameEnd
  /\ buf[5] = FrameEnd
  /\ buf[6] = FrameEnd

\* variant: the terminator is not tested
trameValideSansFin(buf) == buf[0] = FrameStart

trameValide(buf) ==
  /\ buf[0] = FrameStart
  /\ buf[4] = FrameEnd
  /\ buf[5] = FrameEnd
  /\ buf[6] = FrameEnd

\* variant: the page is not tested
estBoutonSansPage(buf) ==
  /\ buf[2] >= FIRST_BTN_ID
  /\ buf[2] < FIRST_BTN_ID + NB_ANTENNES

estBouton(buf) ==
  /\ buf[1] = 0
  /\ buf[2] >= FIRST_BTN_ID
  /\ buf[2] < FIRST_BTN_ID + NB_ANTENNES

\* the window selects an antenna
selectionne(buf) == trameValide(buf) /\ estBouton(buf)

\* lines 148-162: the handling of a valid button frame, millis() = t
\* variant: the selection is not written to the EEPROM
traiterBoutonSansSauvegarde(s, compId, t) ==
  LET idx == compId - FIRST_BTN_ID
      s1 == exclusivite(s, idx)
      s2 == setBoutonOn(s1, idx)
      s3 == [s2 EXCEPT !.antenneSelectionnee = idx]
      s5 == digitalWrite(s3, idx, TRUE)
  IN  [s5 EXCEPT !.relayOffTime[idx] = ULPlus(t, PulseMs)]

traiterBouton(s, compId, t) ==
  LET idx == compId - FIRST_BTN_ID
      s1 == exclusivite(s, idx)
      s2 == setBoutonOn(s1, idx)
      s3 == [s2 EXCEPT !.antenneSelectionnee = idx]
      s4 == [s3 EXCEPT !.EEPROM = sauvegarderSelection(@, idx)]
      s5 == digitalWrite(s4, idx, TRUE)
  IN  [s5 EXCEPT !.relayOffTime[idx] = ULPlus(t, PulseMs)]

\* the outputs after each iteration of the loop of exclusivite, from i on
RECURSIVE etapesExclusivite(_, _, _)
etapesExclusivite(s, i, actif) ==
  IF i >= NB_ANTENNES THEN <<>>
  ELSE LET n == exclusiviteCorps(s, i, actif)
       IN  <<n>> \o etapesExclusivite(n, i + 1, actif)

\* variant: the relay is energized first, the others are switched off after
etapesBoutonRelaisDAbord(s, compId, t) ==
  LET idx == compId - FIRST_BTN_ID
      s0 == digitalWrite(s, idx, TRUE)
      ex == <<s, s0>> \o etapesExclusivite(s0, 0, idx)
      s2 == setBoutonOn(ex[Len(ex)], idx)
      s3 == [s2 EXCEPT !.antenneSelectionnee = idx]
      s4 == [s3 EXCEPT !.EEPROM = sauvegarderSelection(@, idx)]
      s6 == [s4 EXCEPT !.relayOffTime[idx] = ULPlus(t, PulseMs)]
  IN  ex \o <<s2, s3, s4, s6>>

\* lines 148-162 statement by statement: the outputs on entry, after each
\* iteration of exclusivite (line 151), after setBoutonOn (154), after the
\* assignment of line 157, after the save (158), after digitalWrite HIGH
\* (161) and after the deadline is stored (162)
etapesBouton(s, compId, t) ==
  LET idx == compId - FIRST_BTN_ID
      ex == <<s>> \o etapesExclusivite(s, 0, idx)
      s2 == setBoutonOn(ex[Len(ex)], idx)
      s3 == [s2 EXCEPT !.antenneSelectionnee = idx]
      s4 == [s3 EXCEPT !.EEPROM = sauvegarderSelection(@, idx)]
      s5 == digitalWrite(s4, idx, TRUE)
      s6 == [s5 EXCEPT !.relayOffTime[idx] = ULPlus(t, PulseMs)]
  IN  ex \o <<s2, s3, s4, s5, s6>>

\* lines 133-165: what a full window does to the outputs
traiterFenetre(s, buf, t) ==
  IF selectionne(buf) THEN traiterBouton(s, buf[2], t) ELSE s

\* lines 177-194 of setup(), after the relays were forced LOW
restaurerSelection(s) ==
  LET a  == lireSelectionEEPROM(s.EEPROM)
      s1 == [s EXCEPT !.antenneSelectionnee = a]
  IN  IF a >= 0 /\ a < NB_ANTENNES
      THEN setBoutonOn(exclusivite(s1, a), a)
      ELSE s1

\* variant: the relays are not forced LOW
tousLowOublie(s) == s

tousLow(s) == [s EXCEPT !.relay = [i \in Antennes |-> FALSE]]

setupSortie(s) == restaurerSelection(tousLow(s))

\* ------------------------------------------------------------------
\* State after power-up
\* ------------------------------------------------------------------
\* Until setup() makes the pins outputs they are high-impedance inputs and
\* the relay board's inputs float: either level can be seen.
PowerOnPins ==
  { [i \in Antennes |-> FALSE], [i \in Antennes |-> i < 2] }

\* contents of the two EEPROM bytes the program may find at its first start
InitEEPROM ==
  { <<255, 255>>, <<165, 0>>, <<165, 7>>, <<165, 8>>, <<0, 3>> }

EEPROMOf(p) == [a \in 0..1 |-> p[a + 1]]

\* everything a reset sets, the pins and the EEPROM excepted
PowerUp ==
  /\ relayOffTime = [i \in Antennes |-> ULZero]
  /\ antenneSelectionnee = -1
  /\ pos = 0
  /\ buffer = [i \in 0..6 |-> 0]
  /\ rx = <<>>
  /\ bouton = [i \in Antennes |-> -1]
  /\ tx = <<>>
  /\ now = ULZero
  /\ pc = "setup"
  /\ since = 0
  /\ scanned = FALSE
  /\ evtAnt = -1
  /\ nbEvts = 0
  /\ fenetre = "aucune"
  /\ ret = -2
  /\ avant = <<-1, FALSE>>
  /\ journal = <<>>

Init ==
  /\ PowerUp
  /\ relay \in PowerOnPins
  /\ EEPROM \in {EEPROMOf(p) : p \in InitEEPROM}
  /\ lastSel = -1
  /\ wire = <<>>
  /\ stream = <<>>

\* the primed outputs are those of record s
Appliquer(s) ==
  /\ relay' = s.relay
  /\ relayOffTime' = s.relayOffTime
  /\ bouton' = s.bouton
  /\ tx' = s.tx
  /\ antenneSelectionnee' = s.antenneSelectionnee
  /\ EEPROM' = s.EEPROM

\* ------------------------------------------------------------------
\* setup()
\* ------------------------------------------------------------------
Setup ==
  /\ pc = "setup"
  /\ Appliquer(setupSortie(Courant))
  /\ ret' = lireSelectionEEPROM(EEPROM)
  /\ now' = ULPlus(now, SetupDelayMs)
  /\ pc' = "recv"
  /\ since' = 0
  /\ scanned' = FALSE
  /\ fenetre' = "aucune"
  /\ UNCHANGED <<pos, buffer, rx, wire, evtAnt, lastSel, nbEvts, stream, avant, journal>>

\* ------------------------------------------------------------------
\* recevoirEvenementsNextion(): one turn of its while loop
\* ------------------------------------------------------------------
\* variant: no byte is skipped
ignoreHorsTrameJamais(p, c) == FALSE

\* line 127: a byte other than 0x65 while pos = 0 is skipped
ignoreHorsTrame(p, c) == p = 0 /\ c # FrameStart

\* variant: the window is taken for full one byte late
fenetrePleineTard(p) == p + 1 > 7

\* line 133: the window is full once this byte is stored
fenetrePleine(p) == p + 1 >= 7

\* the relay found energized, with the state of its deadline
relaisAvant ==
  IF \E k \in Antennes : relay[k]
  THEN LET k == CHOOSE i \in Antennes : relay[i]
       IN  <<k, relayOffTime[k] # ULZero>>
  ELSE <<-1, FALSE>>

RecvOctet ==
  /\ pc = "recv"
  /\ rx # <<>>
  /\ LET c == Head(rx)
         buf == [buffer EXCEPT ![pos] = c]
     IN  /\ rx' = Tail(rx)
         /\ IF ignoreHorsTrame(pos, c)
            THEN /\ tx' = <<>>
                 /\ fenetre' = "aucune"
                 /\ UNCHANGED <<relay, relayOffTime, bouton, antenneSelectionnee,
                                EEPROM, pos, buffer, since, scanned, evtAnt,
                                lastSel, nbEvts, avant>>
            ELSE IF fenetrePleine(pos)
                    THEN /\ Appliquer(traiterFenetre(Courant, buf, now))
                         /\ pos' = 0
                         /\ buffer' = [i \in 0..6 |-> 0]
                         /\ IF selectionne(buf)
                            THEN /\ fenetre' = "selection"
                                 /\ evtAnt' = buf[2] - FIRST_BTN_ID
                                 /\ lastSel' = buf[2] - FIRST_BTN_ID
                                 /\ nbEvts' = Min(nbEvts + 1, MaxEvts)
                                 /\ since' = 0
                                 /\ scanned' = FALSE
                                 /\ avant' = relaisAvant
                            ELSE /\ fenetre' = "ignoree"
                                 /\ UNCHANGED <<evtAnt, lastSel, nbEvts, since, scanned,
                                                avant>>
                    ELSE /\ pos' = pos + 1
                         /\ buffer' = buf
                         /\ tx' = <<>>
                         /\ fenetre' = "aucune"
                         /\ UNCHANGED <<relay, relayOffTime, bouton,
                                        antenneSelectionnee, EEPROM, since,
                                        scanned, evtAnt, lastSel, nbEvts, avant>>
  /\ UNCHANGED <<wire, now, pc, stream, ret>>

RecvByte == RecvOctet /\ UNCHANGED journal

\* the same turn, the well-formed windows being written down
RecvByteJournal ==
  /\ RecvOctet
  /\ LET buf == [buffer EXCEPT ![pos] = Head(rx)]
     IN  journal' = IF ~ignoreHorsTrame(pos, Head(rx)) /\ fenetrePleine(pos)
                       /\ trameValide(buf)
                    THEN Append(journal, <<buf[1], buf[2]>>)
                    ELSE journal

\* Serial3.available() is 0: the while loop ends, loop() goes on to line 202
RecvDone ==
  /\ pc = "recv"
  /\ rx = <<>>
  /\ pc' = "tempo"
  /\ tx' = <<>>
  /\ fenetre' = "aucune"
  /\ UNCHANGED <<relay, relayOffTime, antenneSelectionnee, EEPROM, pos, buffer, rx,
                 wire, bouton, now, since, scanned, evtAnt, lastSel, nbEvts, stream, ret,
                 avant, journal>>

\* ------------------------------------------------------------------
\* gererTemporisations(), then loop() starts over
\* ------------------------------------------------------------------
GererTemporisations ==
  /\ pc = "tempo"
  /\ Appliquer(gererTemporisations(Courant, now))
  /\ pc' = "recv"
  /\ scanned' = (since >= PulseMs)
  /\ fenetre' = "aucune"
  /\ UNCHANGED <<pos, buffer, rx, wire, now, since, evtAnt, lastSel, nbEvts, stream, ret,
                 avant, journal>>

\* ------------------------------------------------------------------
\* Environment
\* ------------------------------------------------------------------
Trame(page, id, st) == <<FrameStart, page, id, st, FrameEnd, FrameEnd, FrameEnd>>

\* the buttons the user touches
Touches == {0, 3}

\* press (state 1) and release (state 0) notifications
TramesBouton == {Trame(0, FIRST_BTN_ID + a, a % 2) : a \in Touches}

TramesIgnorees ==
  { Trame(1, FIRST_BTN_ID, 1),
    Trame(0, FIRST_BTN_ID - 1, 1),
    Trame(0, FIRST_BTN_ID + NB_ANTENNES, 1),
    <<FrameStart, 0, FIRST_BTN_ID, 1, FrameEnd, FrameEnd, 0>> }

Bruit == { <<FrameStart, 0, FrameEnd>> }

\* the display (or the line) puts a burst of bytes into the receive buffer
NextionSend ==
  /\ pc # "setup"
  /\ \E f \in TramesBouton \cup TramesIgnorees \cup Bruit :
       /\ Len(rx) + Len(f) <= MaxRx
       /\ rx' = rx \o f
  /\ tx' = <<>>
  /\ fenetre' = "aucune"
  /\ UNCHANGED <<relay, relayOffTime, antenneSelectionnee, EEPROM, pos, buffer, wire,
                 bouton, now, pc, since, scanned, evtAnt, lastSel, nbEvts, stream, ret,
                 avant, journal>>

\* millis() advances
Tick ==
  /\ pc # "setup"
  /\ ULGeq(ULong(MaxNow), now) \/ InWrapZone(now)
  /\ now' = ULPlus(now, TickMs)
  /\ since' = Min(since + TickMs, MaxElapsed)
  /\ tx' = <<>>
  /\ fenetre' = "aucune"
  /\ UNCHANGED <<relay, relayOffTime, antenneSelectionnee, EEPROM, pos, buffer, rx,
                 wire, bouton, pc, scanned, evtAnt, lastSel, nbEvts, stream, ret,
                 journal>>
  /\ avant' = <<-1, FALSE>>

\* Weeks of loop() turns with nothing to read and no deadline pending: each
\* turn changes nothing but millis(), which ends close to its wrap-around.
LongIdle ==
  /\ pc = "recv"
  /\ rx = <<>>
  /\ \A i \in Antennes : relayOffTime[i] = ULZero
  /\ ~InWrapZone(now)
  /\ now' \in WrapStarts
  /\ since' = MaxElapsed
  /\ tx' = <<>>
  /\ fenetre' = "aucune"
  /\ UNCHANGED <<relay, relayOffTime, antenneSelectionnee, EEPROM, pos, buffer, rx,
                 wire, bouton, pc, scanned, evtAnt, lastSel, nbEvts, stream, ret,
                 journal>>
  /\ avant' = <<-1, FALSE>>

\* power is cut and restored: RAM and millis() start over, the EEPROM is kept
PowerCycle ==
  /\ pc \in {"recv", "tempo"}
  /\ relay' \in PowerOnPins
  /\ relayOffTime' = [i \in Antennes |-> ULZero]
  /\ antenneSelectionnee' = -1
  /\ pos' = 0
  /\ buffer' = [i \in 0..6 |-> 0]
  /\ rx' = <<>>
  /\ bouton' = [i \in Antennes |-> -1]
  /\ tx' = <<>>
  /\ now' = ULZero
  /\ pc' = "setup"
  /\ since' = 0
  /\ scanned' = FALSE
  /\ evtAnt' = -1
  /\ nbEvts' = 0
  /\ fenetre' = "aucune"
  /\ ret' = -2
  /\ avant' = <<-1, FALSE>>
  /\ UNCHANGED <<EEPROM, wire, lastSel, stream, journal>>

Next ==
  \/ Setup
  \/ RecvByte
  \/ RecvDone
  \/ GererTemporisations
  \/ NextionSend
  \/ Tick
  \/ LongIdle
  \/ PowerCycle

Spec == Init /\ [][Next]_vars

\* ------------------------------------------------------------------
\* The decoder fed one given byte stream after power-up
\* ------------------------------------------------------------------
\* what precedes the frame on the line: nothing, or a frame cut after 3 bytes
Prefixes == { <<>>, <<FrameStart, 0, FrameEnd>> }

Streams == {g \o Trame(0, FIRST_BTN_ID, st) : g \in Prefixes, st \in 0..1}

InitStream ==
  /\ PowerUp
  /\ relay \in PowerOnPins
  /\ EEPROM \in {EEPROMOf(p) : p \in InitEEPROM}
  /\ lastSel = -1
  /\ stream \in Streams
  /\ wire = stream

\* the next byte of the stream arrives in the receive buffer
NextionStream ==
  /\ pc # "setup"
  /\ wire # <<>>
  /\ Len(rx) < MaxRx
  /\ rx' = Append(rx, Head(wire))
  /\ wire' = Tail(wire)
  /\ tx' = <<>>
  /\ fenetre' = "aucune"
  /\ UNCHANGED <<relay, relayOffTime, antenneSelectionnee, EEPROM, pos, buffer,
                 bouton, now, pc, since, scanned, evtAnt, lastSel, nbEvts, stream, ret,
                 avant, journal>>

NextStream ==
  \/ Setup
  \/ NextionStream
  \/ RecvByte
  \/ RecvDone
  \/ GererTemporisations

SpecStream == InitStream /\ [][NextStream]_vars

\* the whole stream went through the decoder
StreamDone == pc # "setup" /\ wire = <<>> /\ rx = <<>>

\* loop() runs forever (lines 200-203): a byte waiting is read, the end of
\* the receive loop is reached, the scan runs, and millis() goes on counting
SpecLive ==
  /\ Spec
  /\ WF_vars(RecvByte)
  /\ WF_vars(RecvDone)
  /\ WF_vars(GererTemporisations)
  /\ WF_vars(Tick)

\* ------------------------------------------------------------------
\* The decoder alone: aligned frames behind line noise, and pairs of
\* button frames met in every state of the window
\* ------------------------------------------------------------------
\* line 122: uint8_t buffer[7]
TailleFenetre == 7

\* runs of bytes other than 0x65
Parasites ==
  { <<>>, <<0>>, <<FrameEnd, 0, FrameEnd>>,
    <<1, FIRST_BTN_ID, FrameEnd, FrameEnd, FrameEnd, 0, 100, 102>> }

\* well-formed frames: pages, component ids and state bytes of every kind
TramesAlignees ==
  { Trame(page, id, st) :
      page \in {0, 1},
      id \in {FIRST_BTN_ID, FIRST_BTN_ID + NB_ANTENNES - 1, FIRST_BTN_ID - 1, FrameStart},
      st \in {0, 1, FrameStart, FrameEnd} }

StreamsAlignes == {g \o f : g \in Parasites, f \in TramesAlignees}

\* what the window may hold when the frames arrive: nothing, or 0x65 and up
\* to TailleFenetre - 2 bytes more
Octets == {0, FIRST_BTN_ID, FrameEnd}

Entames ==
  {<<>>, <<FrameStart, FrameStart>>, <<FrameStart, 0, FrameStart>>,
   <<FrameStart, 0, FIRST_BTN_ID, 1, FrameEnd, FrameStart>>}
  \cup {<<FrameStart>> \o b : b \in UNION {[1..n -> Octets] : n \in 0..(TailleFenetre - 2)}}

\* two consecutive button frames
Paires ==
  { Trame(0, FIRST_BTN_ID + a, a % 2) \o Trame(0, FIRST_BTN_ID + 3, st) :
      a \in {0, NB_ANTENNES - 1}, st \in 0..1 }

StreamsPaires == {g \o f : g \in Entames, f \in Paires}

\* a frame cut after its first FF, then a button frame
StreamsTronques ==
  { <<FrameStart, 0, FIRST_BTN_ID, 1, FrameEnd>> \o Trame(0, FIRST_BTN_ID + 3, st) :
      st \in 0..1 }

InitDecode ==
  /\ PowerUp
  /\ relay = [i \in Antennes |-> FALSE]
  /\ EEPROM = EEPROMOf(<<255, 255>>)
  /\ lastSel = -1
  /\ stream \in StreamsAlignes \cup StreamsPaires \cup StreamsTronques
  /\ wire = stream

NextDecode ==
  \/ Setup
  \/ NextionStream
  \/ RecvByteJournal
  \/ RecvDone
  \/ GererTemporisations

SpecDecode == InitDecode /\ [][NextDecode]_vars

\* ------------------------------------------------------------------
\* The two EEPROM bytes under sauvegarderSelection / lireSelectionEEPROM
\* ------------------------------------------------------------------
InitStore ==
  /\ relay = [i \in Antennes |-> FALSE]
  /\ relayOffTime = [i \in Antennes |-> ULZero]
  /\ antenneSelectionnee = -1
  /\ pos = 0
  /\ buffer = [i \in 0..6 |-> 0]
  /\ rx = <<>>
  /\ wire = <<>>
  /\ bouton = [i \in Antennes |-> -1]
  /\ tx = <<>>
  /\ now = ULZero
  /\ pc = "eeprom"
  /\ since = 0
  /\ scanned = FALSE
  /\ evtAnt = -1
  /\ nbEvts = 0
  /\ fenetre = "aucune"
  /\ stream = <<>>
  /\ ret = -2
  /\ avant = <<-1, FALSE>>
  /\ journal = <<>>
  /\ lastSel = -1
  /\ EEPROM \in [0..1 -> Byte]

storeRest == <<relay, relayOffTime, antenneSelectionnee, pos, buffer, rx, wire, bouton,
               tx, now, pc, since, scanned, evtAnt, nbEvts, fenetre, stream,
               avant, journal>>

\* sauvegarderSelection(k); lastSel remembers k, ret forgets the last read
SaveStep(k) ==
  /\ EEPROM' = sauvegarderSelection(EEPROM, k)
  /\ lastSel' = k
  /\ ret' = -2

Save ==
  /\ pc = "eeprom"
  /\ \E k \in Antennes : SaveStep(k)
  /\ UNCHANGED storeRest

\* ret = lireSelectionEEPROM(); the function only calls EEPROM.read
LoadStep ==
  /\ ret' = lireSelectionEEPROM(EEPROM)
  /\ EEPROM' = EEPROM

Load ==
  /\ pc = "eeprom"
  /\ LoadStep
  /\ UNCHANGED lastSel
  /\ UNCHANGED storeRest

NextStore == Save \/ Load

SpecStore == InitStore /\ [][NextStore]_vars

\* ==================================================================
\* Properties
\* ==================================================================
Energises == {i \in Antennes : relay[i]}

\* the indicators show k and nothing else
Voyants(b, k) == \A i \in Antennes : b[i] = (IF i = k THEN 1 ELSE 0)

\* C1 -- Exclusivity: once setup() has run, after every completed step
\* (touch handling, ignored input, timeout scan) at most one of the 8 relays
\* is energized.
C1_Exclusivite == pc # "setup" => Cardinality(Energises) <= 1

\* two events were handled and the second one's relay is the one energized
C1_Witness == pc # "setup" /\ nbEvts = 2 /\ evtAnt = 3 /\ Energises = {3}

\* C2 -- Timeout firing: after a valid event for antenna k at time T and no
\* other event since, relay k is energized while less than PulseMs have
\* elapsed, is de-energized once a timeout scan has run PulseMs or more after
\* T, and indicator k is "on" throughout.
C2_TimeoutFiring ==
  \A k \in Antennes :
    (pc # "setup" /\ evtAnt = k) =>
      /\ since < PulseMs => relay[k]
      /\ scanned => ~relay[k]
      /\ bouton[k] = 1

\* C3 -- Frame resynchronization, as claimed: 0x65 0x00 0xFF followed by one
\* valid frame for button 0 yields exactly one touch event, for antenna 0.
C3Streams == {<<FrameStart, 0, FrameEnd>> \o Trame(0, FIRST_BTN_ID, st) : st \in 0..1}

C3_ResyncClaimed ==
  (stream \in C3Streams /\ StreamDone) => (nbEvts = 1 /\ evtAnt = 0)

\* C3 -- as the decoder behaves: the first four bytes of the frame fill the
\* window opened by 0x65 0x00 0xFF, the window is dropped, the three 0xFF left
\* are skipped: no touch event, and the write position is back at 0.
C3_ResyncLost ==
  (stream \in C3Streams /\ StreamDone) => (nbEvts = 0 /\ evtAnt = -1 /\ pos = 0)

C3_Witness ==
  stream \in C3Streams /\ StreamDone /\ nbEvts = 0 /\ pos = 0 /\ antenneSelectionnee # 0

\* C4 -- Indicator/selection convergence: once a valid event selecting k has
\* been handled, the last command sent to button k is "on" and the last
\* command sent to every other button is "off".
C4_Convergence ==
  \A k \in Antennes : (pc # "setup" /\ evtAnt = k) => Voyants(bouton, k)

\* antenna 3 was selected after another selection had lit button 0
C4_Witness ==
  pc # "setup" /\ evtAnt = 3 /\ nbEvts = 2 /\ bouton[3] = 1 /\ bouton[0] = 0
  /\ fenetre = "selection"

\* C5 -- Persistence across power cycles: when setup() runs after a power
\* cycle that followed a valid selection of k, it leaves SelectionState = k,
\* indicator k "on", the others "off", and every relay de-energized.
C5_Persistance ==
  [][(pc = "setup" /\ pc' = "recv" /\ lastSel \in Antennes) =>
       /\ antenneSelectionnee' = lastSel
       /\ Voyants(bouton', lastSel)
       /\ \A i \in Antennes : ~relay'[i]]_vars

\* setup() has run after a power cycle that followed the selection of 3
C5_Witness ==
  pc = "recv" /\ lastSel = 3 /\ evtAnt = -1 /\ antenneSelectionnee = 3
  /\ bouton[3] = 1 /\ Energises = {}

\* C6 -- Persistence round-trip: whatever the two bytes held before,
\* save(k) followed by load() returns k, for every k in 0..7.
C6_RoundTrip ==
  (pc = "eeprom" /\ lastSel # -1 /\ ret # -2) => ret = lastSel

C6_Witness == pc = "eeprom" /\ lastSel = 5 /\ ret = 5

\* C7 -- Invalid persisted state rejection: load() returns -1 when the magic
\* byte is not 0xA5, whatever the index byte, and when the magic matches but
\* the index byte is 8 or more; it returns the index byte when the magic is
\* 0xA5 and the index byte is below 8. load() writes nothing.
C7_Attendu(e) == IF e[0] = 165 /\ e[1] < 8 THEN e[1] ELSE -1

C7_Rejet ==
  /\ []((pc = "eeprom" /\ ret # -2) => ret = C7_Attendu(EEPROM))
  /\ [][(pc = "eeprom" /\ ret' # -2) => EEPROM' = EEPROM]_vars

\* load() has answered "no selection" to a good magic with index 8
C7_Witness == pc = "eeprom" /\ ret = -1 /\ EEPROM[0] = 165 /\ EEPROM[1] = 8

\* C8 -- Ignored input is a no-op: when the 7th byte of a window is stored
\* and the window has a bad terminator, or a page other than 0, or a
\* componentId outside FIRST_BTN_ID .. FIRST_BTN_ID+7, the relays, the
\* deadlines, SelectionState and the EEPROM keep their values and no
\* indicator command is sent.
C8_FenetreIgnoree ==
  LET w == [buffer EXCEPT ![6] = Head(rx)]
  IN  \/ w[4] # 255 \/ w[5] # 255 \/ w[6] # 255
      \/ w[1] # 0
      \/ w[2] < FIRST_BTN_ID
      \/ w[2] >= FIRST_BTN_ID + 8

C8_Ignore ==
  [][(pc = "recv" /\ pc' = "recv" /\ rx # <<>> /\ pos = 6 /\ pos' = 0
      /\ C8_FenetreIgnoree) =>
       /\ relay' = relay
       /\ relayOffTime' = relayOffTime
       /\ antenneSelectionnee' = antenneSelectionnee
       /\ EEPROM' = EEPROM
       /\ bouton' = bouton
       /\ tx' = <<>>]_vars

\* a window was just dropped while a relay pulse was running
C8_Witness ==
  /\ fenetre = "ignoree"
  /\ \E i \in Antennes : relay[i] /\ relayOffTime[i] # ULZero
  /\ tx = <<>>

\* C9 -- Startup recovery: whatever the EEPROM holds, setup() leaves the 8
\* relays de-energized and no deadline pending; with a valid record k,
\* SelectionState = k, indicator k is "on" and the others "off"; with an
\* invalid record SelectionState is unset and no indicator command is sent.
\* No relay is energized before a valid touch event is handled.
C9_ApresSetup ==
  /\ \A i \in Antennes : ~relay'[i] /\ relayOffTime'[i] = ULZero
  /\ LET k == lireSelectionEEPROM(EEPROM)
     IN  IF k \in Antennes
         THEN antenneSelectionnee' = k /\ Voyants(bouton', k)
         ELSE antenneSelectionnee' = -1 /\ tx' = <<>> /\ bouton' = bouton

C9_Startup ==
  /\ [][(pc = "setup" /\ pc' = "recv") => C9_ApresSetup]_vars
  /\ []((pc # "setup" /\ evtAnt = -1) => Energises = {})

\* setup() restored antenna 7 from the EEPROM; no event yet, time has passed
C9_Witness ==
  pc # "setup" /\ evtAnt = -1 /\ ret = 7 /\ antenneSelectionnee = 7
  /\ bouton[7] = 1 /\ since > 0 /\ Energises = {}

\* C10 -- The timeout scan de-energizes exactly the relays whose deadline is
\* pending and elapsed (now >= deadline) and clears their deadline; every
\* other relay and deadline, SelectionState, the indicators and the EEPROM
\* are left as they were.
C10_Scan ==
  [][(pc = "tempo" /\ pc' = "recv") =>
       /\ \A i \in Antennes :
            IF relayOffTime[i] # ULZero /\ ULGeq(now, relayOffTime[i])
            THEN ~relay'[i] /\ relayOffTime'[i] = ULZero
            ELSE relay'[i] = relay[i] /\ relayOffTime'[i] = relayOffTime[i]
       /\ antenneSelectionnee' = antenneSelectionnee
       /\ bouton' = bouton
       /\ EEPROM' = EEPROM
       /\ tx' = <<>>]_vars

\* a scan has ended the pulse of the selected antenna, whose button stays on
C10_Witness ==
  /\ pc = "recv" /\ scanned /\ evtAnt = 3
  /\ ~relay[3] /\ relayOffTime[3] = ULZero
  /\ bouton[3] = 1 /\ antenneSelectionnee = 3

\* the window completed by the byte about to be read is the touch event of
\* button j
FenetreBouton(j) ==
  LET w == [buffer EXCEPT ![6] = Head(rx)]
  IN  /\ w[0] = 101 /\ w[1] = 0 /\ w[2] = FIRST_BTN_ID + j
      /\ w[4] = 255 /\ w[5] = 255 /\ w[6] = 255

\* the step that stores the 7th byte of a window and handles the window
FenetreLue == pc = "recv" /\ pc' = "recv" /\ rx # <<>> /\ pos = 6 /\ pos' = 0

\* C11 -- Preemption by a different antenna: when the valid event of j is
\* handled at time t while relay k # j is energized with a pending deadline,
\* then afterwards relay k is de-energized and its deadline cleared, relay j
\* is energized with the deadline t + D (the unsigned 32-bit sum the code
\* stores), SelectionState is j and the EEPROM holds {0xA5, j}.
C11_Preemption ==
  [][FenetreLue => \A j, k \in Antennes :
       (FenetreBouton(j) /\ k # j /\ relay[k] /\ relayOffTime[k] # ULZero) =>
         /\ ~relay'[k]
         /\ relayOffTime'[k] = ULZero
         /\ relay'[j]
         /\ relayOffTime'[j] = ULPlus(now, PulseMs)
         /\ antenneSelectionnee' = j
         /\ EEPROM' = EEPROMOf(<<165, j>>)]_vars

\* the event of antenna 3 has just cut the running pulse of relay 0
C11_Witness ==
  /\ fenetre = "selection" /\ evtAnt = 3 /\ avant = <<0, TRUE>>
  /\ Energises = {3} /\ relayOffTime[0] = ULZero

\* C12 -- Single writer: once setup() has returned, a relay goes from
\* de-energized to energized, and SelectionState changes its value, only in
\* a step that handles a valid touch event; SelectionState, once set to an
\* index, is never unset during the run.
C12_SingleWriter ==
  [][(pc # "setup" /\ pc' # "setup") =>
       /\ ((\E i \in Antennes : ~relay[i] /\ relay'[i])
            \/ antenneSelectionnee' # antenneSelectionnee)
           => (FenetreLue /\ \E j \in Antennes : FenetreBouton(j))
       /\ antenneSelectionnee # -1 => antenneSelectionnee' # -1]_vars

\* setup() restored antenna 0 and the first event of the run, for antenna
\* 3, has just energized relay 3 and moved the selection
C12_Witness ==
  /\ ret = 0 /\ nbEvts = 1 /\ evtAnt = 3 /\ fenetre = "selection"
  /\ avant = <<-1, FALSE>> /\ relay[3] /\ antenneSelectionnee = 3

\* C13 -- Decoder on aligned input: with the write position at 0, a run of
\* bytes other than 0x65 is discarded without being buffered, and the
\* well-formed frame <<0x65, page, componentId, state, FF, FF, FF>> that
\* follows yields exactly one event {page, componentId}; what the event does
\* depends on page and componentId only, not on the state byte.
C13_Aligne ==
  stream \in StreamsAlignes =>
    LET n == Len(stream)
        page == stream[n - 5]
        id == stream[n - 4]
        idx == id - FIRST_BTN_ID
    IN  /\ Len(wire) + Len(rx) >= TailleFenetre => (pos = 0 /\ journal = <<>>)
        /\ StreamDone =>
             /\ pos = 0
             /\ journal = << <<page, id>> >>
             /\ IF page = 0 /\ idx \in Antennes
                THEN /\ nbEvts = 1 /\ evtAnt = idx
                     /\ antenneSelectionnee = idx /\ Energises = {idx}
                     /\ Voyants(bouton, idx)
                ELSE /\ nbEvts = 0 /\ evtAnt = -1
                     /\ antenneSelectionnee = -1 /\ Energises = {}

\* eight bytes of noise, then the frame of button 7 with state byte 0xFF
C13_Witness ==
  /\ stream = <<1, FIRST_BTN_ID, FrameEnd, FrameEnd, FrameEnd, 0, 100, 102>>
                \o Trame(0, FIRST_BTN_ID + 7, FrameEnd)
  /\ StreamDone
  /\ journal = << <<0, FIRST_BTN_ID + 7>> >>
  /\ evtAnt = 7

\* the window completed by the byte about to be read is not a frame
FenetreMalFormee ==
  LET w == [buffer EXCEPT ![6] = Head(rx)]
  IN  w[0] # 101 \/ w[4] # 255 \/ w[5] # 255 \/ w[6] # 255

\* C14 -- Lossy window reset: whenever the 7th byte of a window is stored
\* the write position returns to 0, the window being well-formed or not; a
\* malformed window is dropped whole (no event, no output, none of its bytes
\* read again). Hence a stream may hold a complete valid button frame as a
\* contiguous sub-sequence and yet yield no event for it: a frame cut after
\* five bytes followed by the frame of button 3 is such a stream.
C14_LossyReset ==
  /\ [][(pc = "recv" /\ rx # <<>> /\ pos = 6 /\ rx' = Tail(rx)) =>
          /\ pos' = 0
          /\ FenetreMalFormee =>
               /\ journal' = journal
               /\ relay' = relay /\ relayOffTime' = relayOffTime
               /\ antenneSelectionnee' = antenneSelectionnee
               /\ EEPROM' = EEPROM /\ bouton' = bouton /\ tx' = <<>>]_vars
  /\ []((stream \in StreamsTronques /\ StreamDone) =>
          (journal = <<>> /\ nbEvts = 0 /\ pos = 0))

\* the stream held the whole frame of button 3 (bytes 6 to 12), went through
\* the decoder, and no event came out
C14_Witness ==
  /\ Len(stream) = 12
  /\ SubSeq(stream, 6, 12) = Trame(0, FIRST_BTN_ID + 3, 1)
  /\ StreamDone
  /\ journal = <<>> /\ nbEvts = 0 /\ antenneSelectionnee = -1

\* the relays energized in the outputs s
EnergisesDe(s) == {i \in Antennes : s.relay[i]}

\* the handler's last intermediate point is what the step leaves
Aboutit(e) ==
  LET f == e[Len(e)]
  IN  /\ relay' = f.relay /\ relayOffTime' = f.relayOffTime
      /\ bouton' = f.bouton /\ antenneSelectionnee' = f.antenneSelectionnee
      /\ EEPROM' = f.EEPROM

\* C15 -- Break-before-make: while the valid event of idx is handled, every
\* other relay is de-energized and its deadline cleared before relay idx is
\* energized, so at every intermediate point inside the handler at most one
\* relay is energized.
C15_BreakBeforeMake ==
  [][FenetreLue => \A idx \in Antennes : FenetreBouton(idx) =>
       LET e == etapesBouton(Courant, FIRST_BTN_ID + idx, now)
       IN  /\ Aboutit(e)
           /\ \A n \in 1..Len(e) : Cardinality(EnergisesDe(e[n])) <= 1
           /\ \A n \in 2..Len(e) :
                (e[n].relay[idx] /\ ~e[n - 1].relay[idx]) =>
                  \A i \in Antennes \ {idx} :
                    ~e[n - 1].relay[i] /\ e[n - 1].relayOffTime[i] = ULZero]_vars

\* the event of antenna 0 was handled while the pulse of relay 3 was running
C15_Witness ==
  /\ fenetre = "selection" /\ evtAnt = 0 /\ avant = <<3, TRUE>>
  /\ Energises = {0} /\ antenneSelectionnee = 0

\* C16 -- Re-selecting the same antenna: when the valid event of k is
\* handled at t2 while relay k is still energized from an earlier event,
\* relay k is not de-energized at any point of the handling, its deadline is
\* overwritten with t2 + D, and so the pulse is extended rather than ended
\* at the first deadline: the relay is still energized once the scan of
\* the same instant has run.
C16_Reselection ==
  /\ [][FenetreLue => \A k \in Antennes : (FenetreBouton(k) /\ relay[k]) =>
          LET e == etapesBouton(Courant, FIRST_BTN_ID + k, now)
          IN  /\ Aboutit(e)
              /\ \A n \in 1..Len(e) : e[n].relay[k]
              /\ relayOffTime'[k] = ULPlus(now, PulseMs)]_vars
  /\ [](\A k \in Antennes :
          (pc # "setup" /\ evtAnt = k /\ avant[1] = k) => relay[k])

\* C17 -- Every pulse ends: whatever millis() reads when the valid event of
\* k is handled, values within D of the wrap-around included, relay k is
\* not de-energized before D ms have elapsed, and if no further touch event
\* is handled while loop() keeps running and time advances, relay k is
\* eventually de-energized.
C17_PulseEnds ==
  /\ [](\A k \in Antennes :
          (pc # "setup" /\ evtAnt = k /\ since < PulseMs) => relay[k])
  /\ ([]<><<Tick \/ LongIdle>>_vars
        /\ <>[][pc' # "setup"
                 /\ ~(FenetreLue /\ \E j \in Antennes : FenetreBouton(j))]_vars)
      => <>[](Energises = {})

\* the relays whose deadline is pending
Echeances == {i \in Antennes : relayOffTime[i] # ULZero}

\* C18 -- Deadline implies energized: in every state reached after setup()
\* and any number of completed event handlings and scans, a relay with a
\* pending (non-zero) deadline is energized, and at most one relay has a
\* pending deadline.
C18_Echeance ==
  pc # "setup" => (Echeances \subseteq Energises /\ Cardinality(Echeances) <= 1)

\* halfway through the pulse of relay 3, which followed another event
C18_Witness ==
  /\ pc # "setup" /\ nbEvts = 2 /\ evtAnt = 3 /\ since = TickMs
  /\ Echeances = {3} /\ relay[3]

\* C19 -- An energized relay is the selected antenna: after setup(), if
\* relay i is energized then SelectionState is i and the EEPROM holds
\* {0xA5, i}.
C19_EnergiseSelectionne ==
  pc # "setup" =>
    \A i \in Antennes :
      relay[i] => (antenneSelectionnee = i /\ EEPROM[0] = 165 /\ EEPROM[1] = i)

\* setup() found no valid record; the event of antenna 0 energized relay 0
\* and wrote the record
C19_Witness ==
  /\ pc # "setup" /\ ret = -1 /\ nbEvts = 1 /\ relay[0]
  /\ antenneSelectionnee = 0 /\ EEPROM[0] = 165 /\ EEPROM[1] = 0

\* C20 -- Bounded resynchronization: whatever the window holds (write
\* position 0 to 6, any buffered bytes), two consecutive well-formed button
\* frames always get the second frame decoded into its event and leave the
\* write position at 0; no event comes out for a componentId carried by
\* neither frame, so at most the first frame is lost. From write position 0
\* both frames are decoded.
C20_Resync ==
  (stream \in StreamsPaires /\ StreamDone) =>
    LET n == Len(stream)
        e1 == <<0, stream[n - 11]>>
        e2 == <<0, stream[n - 4]>>
        idx == stream[n - 4] - FIRST_BTN_ID
    IN  /\ pos = 0
        /\ journal \in {<<e1, e2>>, <<e2>>}
        /\ n = 2 * TailleFenetre => journal = <<e1, e2>>
        /\ evtAnt = idx /\ antenneSelectionnee = idx /\ Energises = {idx}

\* the window held 0x65 0x00 0x02 0x01 0xFF 0x65 when the frames of buttons
\* 7 and 3 arrived: the first is lost, the second is decoded
C20_Witness ==
  /\ stream = <<FrameStart, 0, FIRST_BTN_ID, 1, FrameEnd, FrameStart>>
                \o Trame(0, FIRST_BTN_ID + 7, 1) \o Trame(0, FIRST_BTN_ID + 3, 0)
  /\ StreamDone
  /\ journal = << <<0, FIRST_BTN_ID + 3>> >>
  /\ evtAnt = 3 /\ pos = 0
====
